---- MODULE Spec2Model ----
(***************************************************************************)
(* A model of libintern (src/src/lib.rs): the Interner (a list of          *)
(* fixed-capacity holders), the Intern handle (a pinned pointer) and the   *)
(* Iter traversal.                                                         *)
(*                                                                         *)
(* Memory model.  A Vec<T> is a heap buffer: [ptr, cap, elems], where ptr *)
(* names the allocation, cap is its capacity and elems its initialised     *)
(* prefix.  A pointer to an element is [ptr, off] (allocation, 0-based     *)
(* offset).  Vec::push on a full buffer reallocates: the contents move to  *)
(* a fresh allocation and every pointer into the old one dangles.          *)
(* Vec::with_capacity(n) is taken to give capacity exactly n, which is     *)
(* what the standard library does for element types of non-zero size.      *)
(* The stored type T is modelled by integers (the tests use char and i32)  *)
(* with the built-in equality.                                             *)
(***************************************************************************)
EXTENDS Integers, Sequences, FiniteSets

\* ------------------------------------------------------------ bounds
\* Values handed to intern and contains under Spec are 0..MaxVal.
MaxVal == 33
\* How many times a caller asks an exhausted iterator again.
MaxPolls == 2
\* Under SpecGrow the values 0..GrowMax-1 are interned.
GrowMax == 670
\* Under SpecCap the store grows to MaxHolders holders; a holder with
\* FewSlots or more values is filled up in one run of intern calls.
MaxHolders == 36
FewSlots == 2

\* The values a caller may intern first, in any order; the remaining values
\* then follow in increasing order.
Early == {0, 1, 2}
\* The iterators a caller holds.
IterIds == {"it"}

\* ------------------------------------------------- program constants
BEGIN_INTERNER_CAPACITY == 32
\* INTERNER_CAPACITY_DELTA: f32 = 1.5, held as twice its value.
INTERNER_CAPACITY_DELTA_X2 == 3
\* An f32 has a 24-bit significand.
F32_MANTISSA_DIGITS == 24

VARIABLES
    holders,   \* Interner.holders: Vec<InternedItemHolder<T>>
    iters,     \* the Iter values the caller holds, by name
    ret,       \* what the last call returned to the caller
    handles,   \* every (argument, Intern) pair intern has returned
    inputs,    \* the distinct arguments of intern, in order of first call
    panic,     \* "none", or the panic that ended the program
    chunks     \* occupancy view of the holders (SpecCap only): <<[cap, len]>>

vars == <<holders, iters, ret, handles, inputs, panic, chunks>>

None == [tag |-> "None"]
\* What reading through a dangling pointer gives: no value of T.
Undef == -1

Range(s) == {s[i] : i \in 1..Len(s)}
Max(S) == CHOOSE x \in S : \A y \in S : y <= x
Min(S) == CHOOSE x \in S : \A y \in S : x <= y
Last(s) == s[Len(s)]

\* ------------------------------------------------------------ f32
RECURSIVE Pow2(_)
Pow2(n) == IF n = 0 THEN 1 ELSE 2 * Pow2(n - 1)

\* f32 values are held in halves (x2 = twice the value).  F32Ulp2(x2, u) is
\* the spacing, in halves, of the f32 numbers around x2 / 2.
RECURSIVE F32Ulp2(_, _)
F32Ulp2(x2, u) ==
    IF x2 < Pow2(F32_MANTISSA_DIGITS) * u THEN u ELSE F32Ulp2(x2, 2 * u)

\* Round to the nearest f32, ties to the even significand.
F32Round(x2) ==
    LET u == F32Ulp2(x2, 1)
        q == x2 \div u
        r == x2 % u
    IN  IF 2 * r < u THEN q * u
        ELSE IF 2 * r > u THEN (q + 1) * u
        ELSE IF q % 2 = 0 THEN q * u ELSE (q + 1) * u

\* ((last_holder_capacity as f32) * INTERNER_CAPACITY_DELTA) as usize
next_capacity(last_holder_capacity) ==
    LET as_f32 == F32Round(2 * last_holder_capacity)
        product == F32Round((as_f32 \div 2) * INTERNER_CAPACITY_DELTA_X2)
    IN  product \div 2

\* ------------------------------------------------------------ Vec
\* An allocation no Vec of the interner owns yet.
FreshBuf(hs) == 1 + Max({0} \cup {hs[j].items.ptr : j \in 1..Len(hs)})

VecWithCapacity(capacity, fresh) == [ptr |-> fresh, cap |-> capacity, elems |-> <<>>]

\* Vec::push: when the buffer is full it is reallocated (amortised growth) and
\* the elements move; otherwise the element is written in place.
VecPush(v, item, fresh) ==
    IF Len(v.elems) = v.cap
    THEN [ptr |-> fresh,
          cap |-> Max({2 * v.cap, v.cap + 1, 4}),
          elems |-> Append(v.elems, item)]
    ELSE [v EXCEPT !.elems = Append(@, item)]

\* &v[i], 0-based
ElemRef(v, i) == [ptr |-> v.ptr, off |-> i]

\* ------------------------------------------------ InternedItemHolder
InternedItemHolder_new(capacity, fresh) == [items |-> VecWithCapacity(capacity, fresh)]

\* A try_push that pushes without looking at the capacity.
try_push_unchecked(holder, item, fresh) ==
    [ok |-> TRUE, holder |-> [items |-> VecPush(holder.items, item, fresh)], item |-> item]

\* A try_push that reports full one element early.
try_push_early_full(holder, item, fresh) ==
    IF Len(holder.items.elems) + 1 >= holder.items.cap
    THEN [ok |-> FALSE, holder |-> holder, item |-> item]
    ELSE [ok |-> TRUE, holder |-> [items |-> VecPush(holder.items, item, fresh)], item |-> item]

\* Ok(()) with the holder after the push, or Err(item) with the holder as it was.
try_push(holder, item, fresh) ==
    IF Len(holder.items.elems) = holder.items.cap
    THEN [ok |-> FALSE, holder |-> holder, item |-> item]
    ELSE [ok |-> TRUE, holder |-> [items |-> VecPush(holder.items, item, fresh)], item |-> item]

\* ------------------------------------------------------------ Intern
\* Intern(Pin<&'a T>): the reference, pinned and wrapped; the address is kept.
transmute_held_item(reference) == [pin |-> reference]

as_ref(h) == h.pin

\* *h: the element the pointer addresses, if it addresses a live element.
deref(hs, h) ==
    LET p == as_ref(h)
        live == {j \in 1..Len(hs) :
                    hs[j].items.ptr = p.ptr /\ p.off < Len(hs[j].items.elems)}
    IN  IF live = {} THEN Undef
        ELSE hs[CHOOSE j \in live : TRUE].items.elems[p.off + 1]

\* PartialEq: std::ptr::eq of the two addresses.
eq(h1, h2) == as_ref(h1) = as_ref(h2)

\* A Hash that feeds the referenced value to the hasher.
hash_value(hs, h) == <<[write |-> "T", v |-> deref(hs, h)]>>

\* Hash: what std::ptr::hash writes into the Hasher, the address alone.
hash(hs, h) == <<[write |-> "usize", v |-> as_ref(h)]>>

\* T's own ordering (T: Ord).
Ord_cmp(a, b) == IF a < b THEN "Less" ELSE IF a = b THEN "Equal" ELSE "Greater"

\* An ordering of Interns by their addresses.
cmp_address(hs, h1, h2) ==
    IF as_ref(h1).ptr # as_ref(h2).ptr
    THEN Ord_cmp(as_ref(h1).ptr, as_ref(h2).ptr)
    ELSE Ord_cmp(as_ref(h1).off, as_ref(h2).off)

\* Ord: self.0.cmp(&other.0); Pin<&T> compares the values it points to.
cmp(hs, h1, h2) == Ord_cmp(deref(hs, h1), deref(hs, h2))

\* PartialOrd: self.0.partial_cmp(&other.0)
partial_cmp(hs, h1, h2) == [tag |-> "Some", ord |-> Ord_cmp(deref(hs, h1), deref(hs, h2))]

\* ---------------------------------------------------------- Interner
Interner_new == <<InternedItemHolder_new(BEGIN_INTERNER_CAPACITY, 1)>>

\* Position of the first element of elems equal to item, 0 if there is none.
FirstMatch(elems, item) ==
    LET m == {i \in 1..Len(elems) : elems[i] = item}
    IN  IF m = {} THEN 0 ELSE Min(m)

\* A scan that looks into the first holder only.
intern_scan_first_holder(hs, item) ==
    IF Len(hs) = 0 \/ FirstMatch(hs[1].items.elems, item) = 0 THEN None
    ELSE [tag |-> "Some",
          ref |-> ElemRef(hs[1].items, FirstMatch(hs[1].items.elems, item) - 1)]

\* A scan that starts at the second item of every holder.
intern_scan_skip_first(hs, item) ==
    LET hit == {j \in 1..Len(hs) :
                   \E i \in 2..Len(hs[j].items.elems) : hs[j].items.elems[i] = item}
    IN  IF hit = {} THEN None
        ELSE LET j == Max(hit)
                 i == Min({k \in 2..Len(hs[j].items.elems) : hs[j].items.elems[k] = item})
             IN  [tag |-> "Some", ref |-> ElemRef(hs[j].items, i - 1)]

\* The scan of intern: `break` leaves the inner loop only, so the result is the
\* first match of the last holder that has one.
intern_scan(hs, item) ==
    LET hit == {j \in 1..Len(hs) : FirstMatch(hs[j].items.elems, item) # 0}
    IN  IF hit = {} THEN None
        ELSE LET j == Max(hit)
             IN  [tag |-> "Some",
                  ref |-> ElemRef(hs[j].items, FirstMatch(hs[j].items.elems, item) - 1)]

\* A contains that skips the last holder.
contains_skip_last(hs, item) ==
    \E j \in 1..(Len(hs) - 1) : \E i \in 1..Len(hs[j].items.elems) :
        item = hs[j].items.elems[i]

contains(hs, item) ==
    \E j \in 1..Len(hs) : \E i \in 1..Len(hs[j].items.elems) :
        item = hs[j].items.elems[i]

\* A hold_new_item that puts the new holder in front of the list.
hold_new_item_prepend(hs, item) ==
    IF Len(hs) = 0 THEN [panic |-> "unwrap on None", holders |-> hs]
    ELSE LET r == try_push(Last(hs), item, FreshBuf(hs))
         IN  IF r.ok
             THEN [panic |-> "none", holders |-> [hs EXCEPT ![Len(hs)] = r.holder]]
             ELSE LET new_holder == InternedItemHolder_new(
                                        next_capacity(Last(hs).items.cap), FreshBuf(hs))
                  IN  [panic |-> "none",
                       holders |-> <<[items |-> VecPush(new_holder.items, r.item,
                                                        FreshBuf(hs) + 1)]>> \o hs]

\* A hold_new_item that adds the new holder without the item.
hold_new_item_no_push(hs, item) ==
    IF Len(hs) = 0 THEN [panic |-> "unwrap on None", holders |-> hs]
    ELSE LET r == try_push(Last(hs), item, FreshBuf(hs))
         IN  IF r.ok
             THEN [panic |-> "none", holders |-> [hs EXCEPT ![Len(hs)] = r.holder]]
             ELSE [panic |-> "none",
                   holders |-> Append(hs, InternedItemHolder_new(
                                   next_capacity(Last(hs).items.cap), FreshBuf(hs)))]

\* The outer Vec (the list of holders) may move when it grows; that moves the
\* holders' (ptr, cap, len) headers, not the buffers the elements live in.
hold_new_item(hs, item) ==
    IF Len(hs) = 0 THEN [panic |-> "unwrap on None", holders |-> hs]
    ELSE LET r == try_push(Last(hs), item, FreshBuf(hs))
         IN  IF r.ok
             THEN [panic |-> "none", holders |-> [hs EXCEPT ![Len(hs)] = r.holder]]
             ELSE LET last_holder_capacity == Last(hs).items.cap
                      new_holder == InternedItemHolder_new(
                                        next_capacity(last_holder_capacity), FreshBuf(hs))
                  IN  [panic |-> "none",
                       holders |-> Append(hs,
                           [items |-> VecPush(new_holder.items, r.item,
                                              FreshBuf(hs) + 1)])]

\* self.holders.last().unwrap().items.last().unwrap()
last_of_last(hs) ==
    IF Len(hs) = 0 \/ Len(Last(hs).items.elems) = 0 THEN None
    ELSE [tag |-> "Some",
          ref |-> ElemRef(Last(hs).items, Len(Last(hs).items.elems) - 1)]

\* An intern that returns the first item of the last holder for a new item.
intern_first_of_last(hs, item) ==
    LET found == intern_scan(hs, item)
    IN  IF found # None
        THEN [panic |-> "none", holders |-> hs, result |-> transmute_held_item(found.ref)]
        ELSE LET held == hold_new_item(hs, item)
             IN  [panic |-> "none", holders |-> held.holders,
                  result |-> transmute_held_item(ElemRef(Last(held.holders).items, 0))]

\* [panic, holders, result]: the holders after the call and the Intern returned.
intern(hs, item) ==
    LET found == intern_scan(hs, item)
    IN  IF found # None
        THEN [panic |-> "none", holders |-> hs, result |-> transmute_held_item(found.ref)]
        ELSE LET held == hold_new_item(hs, item)
                 new == last_of_last(held.holders)
             IN  IF held.panic # "none"
                 THEN [panic |-> held.panic, holders |-> hs, result |-> None]
                 ELSE IF new = None
                 THEN [panic |-> "unwrap on None", holders |-> held.holders, result |-> None]
                 ELSE [panic |-> "none", holders |-> held.holders,
                       result |-> transmute_held_item(new.ref)]

\* -------------------------------------------------------------- Iter
NoIter == [live |-> FALSE, holder_id |-> 0, inside_holder_id |-> 0,
           yielded |-> <<>>, nones |-> 0]

\* Interner::iter; yielded and nones are what the caller has got from it so far.
iter == [live |-> TRUE, holder_id |-> 0, inside_holder_id |-> 0,
         yielded |-> <<>>, nones |-> 0]

\* A next that takes the holder to be finished one item early.
next_off_by_one(hs, it) ==
    IF it.holder_id >= Len(hs) THEN [panic |-> "none", it |-> it, item |-> None]
    ELSE LET holder == hs[it.holder_id + 1]
         IN  IF it.inside_holder_id >= Len(holder.items.elems)
             THEN [panic |-> "index out of bounds", it |-> it, item |-> None]
             ELSE [panic |-> "none",
                   it |-> IF it.inside_holder_id + 1 >= Len(holder.items.elems) - 1
                          THEN [it EXCEPT !.holder_id = @ + 1, !.inside_holder_id = 0]
                          ELSE [it EXCEPT !.inside_holder_id = @ + 1],
                   item |-> [tag |-> "Some",
                             ref |-> transmute_held_item(
                                         ElemRef(holder.items, it.inside_holder_id))]]

\* A next that yields references to copies of the items, kept in a buffer
\* that is not one of the store's.
next_of_copy(hs, it) ==
    IF it.holder_id >= Len(hs) THEN [panic |-> "none", it |-> it, item |-> None]
    ELSE LET holder == hs[it.holder_id + 1]
         IN  IF it.inside_holder_id >= Len(holder.items.elems)
             THEN [panic |-> "index out of bounds", it |-> it, item |-> None]
             ELSE [panic |-> "none",
                   it |-> IF it.inside_holder_id = Len(holder.items.elems) - 1
                          THEN [it EXCEPT !.holder_id = @ + 1, !.inside_holder_id = 0]
                          ELSE [it EXCEPT !.inside_holder_id = @ + 1],
                   item |-> [tag |-> "Some",
                             ref |-> transmute_held_item(
                                         [ptr |-> 0, off |-> it.inside_holder_id])]]

\* Iter::next: [panic, it, item], the cursor after the call and what it returned.
next(hs, it) ==
    IF it.holder_id >= Len(hs) THEN [panic |-> "none", it |-> it, item |-> None]
    ELSE LET holder == hs[it.holder_id + 1]
         IN  IF it.inside_holder_id >= Len(holder.items.elems)
             THEN [panic |-> "index out of bounds", it |-> it, item |-> None]
             ELSE [panic |-> "none",
                   it |-> IF it.inside_holder_id = Len(holder.items.elems) - 1
                          THEN [it EXCEPT !.holder_id = @ + 1, !.inside_holder_id = 0]
                          ELSE [it EXCEPT !.inside_holder_id = @ + 1],
                   item |-> [tag |-> "Some",
                             ref |-> transmute_held_item(
                                         ElemRef(holder.items, it.inside_holder_id))]]

\* ----------------------------------------------------------- actions
Value == 0..MaxVal

Init ==
    /\ holders = Interner_new
    /\ iters = [i \in IterIds |-> NoIter]
    /\ ret = [op |-> "new"]
    /\ handles = {}
    /\ inputs = <<>>
    /\ panic = "none"
    /\ chunks = <<>>

\* intern takes &mut self: no Iter (which borrows the interner) is alive.
CallIntern(item) ==
    /\ panic = "none"
    /\ \A i \in DOMAIN iters : ~iters[i].live
    /\ LET r == intern(holders, item)
       IN  IF r.panic # "none"
           THEN /\ panic' = r.panic
                /\ UNCHANGED <<holders, iters, ret, handles, inputs, chunks>>
           ELSE /\ holders' = r.holders
                /\ ret' = [op |-> "intern", arg |-> item, val |-> r.result]
                /\ handles' = handles \cup {[arg |-> item, h |-> r.result]}
                /\ inputs' = IF item \in Range(inputs) THEN inputs
                             ELSE Append(inputs, item)
                /\ UNCHANGED <<iters, panic, chunks>>

CallContains(item) ==
    /\ panic = "none"
    /\ ret' = [op |-> "contains", arg |-> item, val |-> contains(holders, item)]
    /\ UNCHANGED <<holders, iters, handles, inputs, panic, chunks>>

CallIter(i) ==
    /\ panic = "none"
    /\ ~iters[i].live
    /\ iters' = [iters EXCEPT ![i] = iter]
    /\ ret' = [op |-> "iter", arg |-> i]
    /\ UNCHANGED <<holders, handles, inputs, panic, chunks>>

\* A next that moves the cursor of every live Iter, as if the cursor belonged
\* to the interner.
CallNext_shared_cursor(i) ==
    /\ panic = "none"
    /\ iters[i].live
    /\ iters[i].nones < MaxPolls
    /\ LET r == next(holders, iters[i])
       IN  IF r.panic # "none"
           THEN /\ panic' = r.panic
                /\ UNCHANGED <<holders, iters, ret, handles, inputs, chunks>>
           ELSE /\ iters' = [j \in DOMAIN iters |->
                       IF j = i
                       THEN IF r.item = None
                            THEN [r.it EXCEPT !.nones = @ + 1]
                            ELSE [r.it EXCEPT !.yielded = Append(@, r.item.ref)]
                       ELSE IF iters[j].live
                            THEN [iters[j] EXCEPT !.holder_id = r.it.holder_id,
                                                  !.inside_holder_id = r.it.inside_holder_id]
                            ELSE iters[j]]
                /\ ret' = [op |-> "next", arg |-> i, val |-> r.item]
                /\ UNCHANGED <<holders, handles, inputs, panic, chunks>>

CallNext(i) ==
    /\ panic = "none"
    /\ iters[i].live
    /\ iters[i].nones < MaxPolls
    /\ LET r == next(holders, iters[i])
       IN  IF r.panic # "none"
           THEN /\ panic' = r.panic
                /\ UNCHANGED <<holders, iters, ret, handles, inputs, chunks>>
           ELSE /\ iters' = [iters EXCEPT ![i] =
                       IF r.item = None
                       THEN [r.it EXCEPT !.nones = @ + 1]
                       ELSE [r.it EXCEPT !.yielded = Append(@, r.item.ref)]]
                /\ ret' = [op |-> "next", arg |-> i, val |-> r.item]
                /\ UNCHANGED <<holders, handles, inputs, panic, chunks>>

\* The Iter goes out of scope.
DropIter(i) ==
    /\ panic = "none"
    /\ iters[i].live
    /\ iters' = [iters EXCEPT ![i] = NoIter]
    /\ ret' = [op |-> "drop", arg |-> i]
    /\ UNCHANGED <<holders, handles, inputs, panic, chunks>>

\* The arguments a caller passes to intern: a value interned before, one of the
\* Early values, or (once those are in) the least value not interned yet.
InputOrder(item) ==
    \/ item \in Range(inputs)
    \/ item \in Early
    \/ Early \subseteq Range(inputs) /\ item = Len(inputs)

\* The values a caller asks contains about: the least value, the value interned
\* last in increasing order, and the next one, which is not interned yet.
Probe(item) == item \in {0, Len(inputs) - 1, Len(inputs)}

Next ==
    \/ \E item \in Value : InputOrder(item) /\ CallIntern(item)
    \/ \E item \in Value : Probe(item) /\ CallContains(item)
    \/ \E i \in IterIds : CallIter(i)
    \/ \E i \in IterIds : CallNext(i)
    \/ \E i \in IterIds : DropIter(i)

Spec == Init /\ [][Next]_vars

\* ------------------------------------------------- intern calls only
\* A caller that only interns, in the orders of Spec.
NextIntern ==
    \E item \in Value : InputOrder(item) /\ CallIntern(item)

SpecIntern == Init /\ [][NextIntern]_vars

\* ------------------------------------------------- two traversals
\* Two Iters over the same interner (iter takes &self, so both may be alive),
\* and a caller that interns 0, 1, 2, ... while none is alive.
TwoIterIds == {"it", "other"}

InitTwo ==
    /\ holders = Interner_new
    /\ iters = [i \in TwoIterIds |-> NoIter]
    /\ ret = [op |-> "new"]
    /\ handles = {}
    /\ inputs = <<>>
    /\ panic = "none"
    /\ chunks = <<>>

NextTwo ==
    \/ \E item \in Value : item = Len(inputs) /\ CallIntern(item)
    \/ \E i \in TwoIterIds : CallIter(i)
    \/ \E i \in TwoIterIds : CallNext(i)
    \/ \E i \in TwoIterIds : DropIter(i)

SpecTwo == InitTwo /\ [][NextTwo]_vars

\* ------------------------------------------------- end of the interner
\* The Interner goes out of scope: its holders and their buffers are freed.
\* The borrow checker allows this when nothing borrows the interner.  An Iter
\* does (it holds &'this Interner); an Intern<'a, T> does not: intern takes
\* &mut self for the call only and returns Intern<'a, T>, where 'a is the
\* parameter of Interner<'a, T> that the caller picks freely (T: 'a is the only
\* bound, so for T = i32 it may be 'static).
DropInterner ==
    /\ panic = "none"
    /\ holders # <<>>
    /\ \A i \in DOMAIN iters : ~iters[i].live
    /\ holders' = <<>>
    /\ ret' = [op |-> "drop_interner"]
    /\ UNCHANGED <<iters, handles, inputs, panic, chunks>>

\* What reading through a pointer gives: the element if it is live;
\* otherwise the read is of freed memory and may give anything.
DerefOutcomes(hs, h) ==
    IF deref(hs, h) # Undef THEN {deref(hs, h)} ELSE Value \cup {Undef}

\* The caller reads the value behind an Intern it holds (*h).
UseHandle(r) ==
    /\ panic = "none"
    /\ \E v \in DerefOutcomes(holders, r.h) :
          ret' = [op |-> "deref", arg |-> r.arg, val |-> v]
    /\ UNCHANGED <<holders, iters, handles, inputs, panic, chunks>>

\* The caller interns 0, 1, 2, ... and reads through the first and the latest
\* Intern it got, before and after the interner has gone.
NextDrop ==
    \/ \E item \in Value : holders # <<>> /\ item = Len(inputs) /\ CallIntern(item)
    \/ DropInterner
    \/ \E r \in handles : r.arg \in {0, Len(inputs) - 1} /\ UseHandle(r)

SpecDrop == Init /\ [][NextDrop]_vars

\* ------------------------------------------------- growth, in depth
\* A caller that interns 0, 1, 2, ... in this order and, in between, interns
\* again the first or the latest value.
GrowOrder(item) ==
    \/ item = Len(inputs)
    \/ Len(inputs) > 0 /\ item \in {0, Len(inputs) - 1}

NextGrow ==
    \E item \in 0..(GrowMax - 1) : GrowOrder(item) /\ CallIntern(item)

SpecGrow == Init /\ [][NextGrow]_vars

\* ------------------------------------------- growth, occupancy only
\* The holders without their contents: chunks[j] = [cap, len] is the capacity
\* and the length of holders[j].items.  This is all that try_push and
\* hold_new_item read when the item is not yet interned, and it lets the store
\* grow to sizes at which the contents cannot be written out.
InitCap ==
    /\ holders = Interner_new
    /\ iters = [i \in IterIds |-> NoIter]
    /\ ret = [op |-> "new"]
    /\ handles = {}
    /\ inputs = <<>>
    /\ panic = "none"
    /\ chunks = <<[cap |-> BEGIN_INTERNER_CAPACITY, len |-> 0]>>

\* hold_new_item on the occupancy view.
hold_new_item_occupancy(cs) ==
    IF Last(cs).len = Last(cs).cap
    THEN Append(cs, [cap |-> next_capacity(Last(cs).cap), len |-> 1])
    ELSE [cs EXCEPT ![Len(cs)].len = @ + 1]

\* intern of one value that is not interned yet.
InternFresh ==
    /\ Len(chunks) < MaxHolders \/ Last(chunks).len < Last(chunks).cap
    /\ Last(chunks).len < FewSlots \/ Last(chunks).len >= Last(chunks).cap - FewSlots
    /\ chunks' = hold_new_item_occupancy(chunks)
    /\ UNCHANGED <<holders, iters, ret, handles, inputs, panic>>

\* intern of as many values not interned yet as leave FewSlots slots of the
\* last holder free: each call takes the Ok branch of hold_new_item.
InternFreshRun ==
    /\ Last(chunks).len >= FewSlots
    /\ Last(chunks).len < Last(chunks).cap - FewSlots
    /\ chunks' = [chunks EXCEPT ![Len(chunks)].len = Last(chunks).cap - FewSlots]
    /\ UNCHANGED <<holders, iters, ret, handles, inputs, panic>>

NextCap == InternFresh \/ InternFreshRun

SpecCap == InitCap /\ [][NextCap]_vars

\* ============================================================ claims
\* The occupied slots of the store, as (holder, slot) positions, 1-based.
Slots(hs) ==
    UNION {{<<j, i>> : i \in 1..Len(hs[j].items.elems)} : j \in 1..Len(hs)}
SlotValue(hs, p) == hs[p[1]].items.elems[p[2]]

\* The last intern call was given a value that had been interned before.
LastInternWasRepeat ==
    /\ ret.op = "intern"
    /\ Len(inputs) > 0
    /\ ret.arg # Last(inputs)

\* C1 (dedup invariant): no two occupied slots of the store, in the same holder
\* or in different ones, hold equal values, and the number of occupied slots is
\* the number of distinct values intern has been given.
C1_Dedup ==
    /\ \A p, q \in Slots(holders) :
          p # q => SlotValue(holders, p) # SlotValue(holders, q)
    /\ Cardinality(Slots(holders)) = Cardinality(Range(inputs))

\* A value is interned again while the store spans two holders.
C1_Witness ==
    /\ LastInternWasRepeat
    /\ Len(holders) = 2
    /\ Len(Last(holders).items.elems) >= 2

\* C2 (handle identity): any two Interns returned by intern, at any two points
\* of the run, compare equal exactly when the two arguments were equal.
C2_HandleIdentity ==
    \A r1, r2 \in handles : eq(r1.h, r2.h) <=> (r1.arg = r2.arg)

\* A value living in the second holder is interned again, with Interns for
\* values of the first holder still held.
C2_Witness ==
    /\ LastInternWasRepeat
    /\ as_ref(ret.val).ptr = holders[Len(holders)].items.ptr
    /\ Len(holders) = 2
    /\ \E r \in handles : as_ref(r.h).ptr = holders[1].items.ptr

\* C3 (address stability): every occupied slot keeps its allocation, its place
\* and its value in every step, so every Intern handed out keeps referring to
\* the same value; this includes the step that adds a holder.
C3_AddressStability ==
    [][/\ Len(holders') >= Len(holders)
       /\ \A p \in Slots(holders) :
             /\ holders'[p[1]].items.ptr = holders[p[1]].items.ptr
             /\ Len(holders'[p[1]].items.elems) >= p[2]
             /\ SlotValue(holders', p) = SlotValue(holders, p)
       /\ \A r \in handles :
             /\ r \in handles'
             /\ deref(holders', r.h) = deref(holders, r.h)]_vars

\* The state right after the intern that found the first holder full.
C3_Witness ==
    /\ Len(holders) = 2
    /\ Len(holders[2].items.elems) = 1
    /\ ret.op = "intern"
    /\ Cardinality(handles) > BEGIN_INTERNER_CAPACITY

\* The references to the occupied slots in holder order, then slot order.
RECURSIVE SlotRefs(_)
SlotRefs(hs) ==
    IF Len(hs) = 0 THEN <<>>
    ELSE SlotRefs(SubSeq(hs, 1, Len(hs) - 1))
         \o [i \in 1..Len(Last(hs).items.elems) |->
                transmute_held_item(ElemRef(Last(hs).items, i - 1))]

Derefs(hs, hseq) == [k \in 1..Len(hseq) |-> deref(hs, hseq[k])]

IsPrefix(s, t) == Len(s) <= Len(t) /\ s = SubSeq(t, 1, Len(s))

\* C4 (traversal order): what an iterator has yielded so far is a prefix of the
\* slots in holder order then slot order, and its values are a prefix of the
\* first occurrences of intern's arguments in call order; when the iterator
\* has reported the end, it has yielded all of them.
C4_TraversalOrder ==
    \A i \in IterIds :
        iters[i].live =>
            /\ IsPrefix(iters[i].yielded, SlotRefs(holders))
            /\ IsPrefix(Derefs(holders, iters[i].yielded), inputs)
            /\ iters[i].nones > 0 => Derefs(holders, iters[i].yielded) = inputs

\* A traversal over two holders has reported the end; the values were not
\* interned in increasing order.
C4_Witness ==
    \E i \in IterIds :
        /\ iters[i].live
        /\ iters[i].nones > 0
        /\ Len(holders) = 2
        /\ inputs[1] # 0

\* C5 (traversal completeness and finiteness): for every n >= 0, a traversal of
\* a store of n distinct values never faults; once it has reported the end it
\* has yielded exactly n Interns, to n distinct slots, and further requests
\* report the end again.
C5_TraversalComplete ==
    /\ panic = "none"
    /\ \A i \in IterIds :
          (iters[i].live /\ iters[i].nones > 0) =>
              /\ Len(iters[i].yielded) = Len(inputs)
              /\ Cardinality(Range(iters[i].yielded)) = Len(inputs)
              /\ next(holders, iters[i]).item = None

\* C6 (contains): contains(v) is true exactly when some earlier intern call was
\* given v, in whichever holder v lives; what a contains call returned is that
\* truth value, and after intern(v) contains(v) is true.
C6_Contains ==
    /\ \A v \in Value : contains(holders, v) <=> v \in Range(inputs)
    /\ ret.op = "contains" => (ret.val <=> ret.arg \in Range(inputs))
    /\ ret.op = "intern" => contains(holders, ret.arg)

\* contains has answered true for a value of the second holder.
C6_Witness ==
    /\ ret.op = "contains"
    /\ ret.val
    /\ Len(holders) = 2
    /\ \E i \in 1..Len(holders[2].items.elems) : holders[2].items.elems[i] = ret.arg

\* C9 (dereference round trip): every Intern that intern(x) has returned
\* dereferences to x, right after the call and after any later call.
C9_DerefRoundTrip ==
    /\ \A r \in handles : deref(holders, r.h) = r.arg
    /\ ret.op = "intern" => deref(holders, ret.val) = ret.arg

\* Interns are dereferenced after a new holder was added, a traversal has run
\* to the end and contains was called.
C9_Witness ==
    /\ Len(holders) = 2
    /\ Cardinality(handles) > BEGIN_INTERNER_CAPACITY
    /\ ret.op = "contains"
    /\ \E i \in IterIds : iters[i].nones > 0

\* The holders with every stored value replaced by another one.
Rewritten(hs) ==
    [j \in 1..Len(hs) |->
        [items |-> [hs[j].items EXCEPT
                       !.elems = [k \in 1..Len(hs[j].items.elems) |->
                                     hs[j].items.elems[k] + 1]]]]

\* C10 (hash consistency): the hash of an Intern does not depend on the value
\* stored at its location, Interns that compare equal hash alike, and two
\* intern calls with equal arguments return Interns that hash alike.
C10_HashConsistency ==
    /\ \A r \in handles : hash(holders, r.h) = hash(Rewritten(holders), r.h)
    /\ \A r1, r2 \in handles :
          /\ eq(r1.h, r2.h) => hash(holders, r1.h) = hash(holders, r2.h)
          /\ r1.arg = r2.arg => hash(holders, r1.h) = hash(holders, r2.h)

\* A value of the first holder is interned a second time.
C10_Witness ==
    /\ LastInternWasRepeat
    /\ Len(holders) = 1
    /\ Cardinality(handles) >= 2

\* The number of holders that n values take when each holder is filled up
\* before the next one, of the next capacity, is added.
RECURSIVE HoldersFor(_, _)
HoldersFor(n, cap) ==
    IF n <= cap THEN 1 ELSE 1 + HoldersFor(n - cap, next_capacity(cap))

\* The occupancy view of holders.
Occupancy(hs) ==
    [j \in 1..Len(hs) |-> [cap |-> hs[j].items.cap, len |-> Len(hs[j].items.elems)]]

\* The occupancy view is exact: a step of the store that interns a value not
\* interned before changes the occupancy as hold_new_item_occupancy says, and
\* every other step leaves it as it is.
OccupancyViewExact ==
    [][Occupancy(holders') =
          IF Len(inputs') > Len(inputs)
          THEN hold_new_item_occupancy(Occupancy(holders))
          ELSE Occupancy(holders)]_vars

\* C7 (capacity progression): the first holder has capacity 32 and every later
\* one floor(1.5 x the capacity of the holder before it), in the store and in
\* its occupancy view.
C7_CapacityProgression ==
    /\ holders[1].items.cap = 32
    /\ \A j \in 2..Len(holders) :
          holders[j].items.cap = (3 * holders[j - 1].items.cap) \div 2
    /\ \A j \in 1..Len(chunks) :
          chunks[j].cap = IF j = 1 THEN 32 ELSE (3 * chunks[j - 1].cap) \div 2

\* C8 (growth trigger): the number of holders is the number that the count of
\* distinct values interned needs (1 up to 32 values, 2 up to 80, ...); a step
\* adds a holder only if it is an intern of a value not yet stored that found
\* the last holder full, it adds one holder holding just that value, and it
\* leaves the holders before it as they were.
C8_GrowthTrigger ==
    /\ [](/\ Len(holders) = HoldersFor(Len(inputs), 32)
          /\ Len(inputs) <= 32 => Len(holders) = 1
          /\ (33 <= Len(inputs) /\ Len(inputs) <= 80) => Len(holders) = 2)
    /\ [][Len(holders') # Len(holders) =>
            /\ Len(holders') = Len(holders) + 1
            /\ Len(Last(holders).items.elems) = Last(holders).items.cap
            /\ ret'.op = "intern"
            /\ ~contains(holders, ret'.arg)
            /\ Last(holders').items.elems = <<ret'.arg>>
            /\ SubSeq(holders', 1, Len(holders)) = holders]_vars

\* A value is interned again in a store that has grown to seven holders.
C8_Witness ==
    /\ Len(holders) = 7
    /\ LastInternWasRepeat

\* C11 (value-based ordering): comparing two Interns gives what comparing the
\* values they refer to gives, whatever the order in which the values were
\* interned and wherever they are stored.
C11_ValueOrdering ==
    \A r1, r2 \in handles :
        /\ cmp(holders, r1.h, r2.h) = Ord_cmp(r1.arg, r2.arg)
        /\ partial_cmp(holders, r1.h, r2.h) = [tag |-> "Some", ord |-> Ord_cmp(r1.arg, r2.arg)]

\* The smaller of two values was interned later, in the same holder or in a
\* later one, so its address is the larger one.
C11_Witness ==
    /\ Len(holders) = 2
    /\ \E r1, r2 \in handles :
          /\ r1.arg < r2.arg
          /\ as_ref(r1.h).ptr = as_ref(r2.h).ptr
          /\ as_ref(r1.h).off > as_ref(r2.h).off
          /\ cmp(holders, r1.h, r2.h) = "Less"

\* C12 (totality of intern and contains): in every state and for every value,
\* intern returns an Intern and contains returns a truth value; none of the
\* unwraps of intern and hold_new_item (the last holder, its last item, the
\* result) meets a None.
C12_Totality ==
    /\ panic # "unwrap on None"
    /\ Len(holders) >= 1
    /\ \A v \in Value :
          /\ intern(holders, v).panic = "none"
          /\ intern(holders, v).result # None
          /\ hold_new_item(holders, v).panic = "none"
          /\ last_of_last(hold_new_item(holders, v).holders) # None
          /\ contains(holders, v) \in BOOLEAN

\* contains has answered false while the last holder is full: an intern of
\* that value has to add a holder and take its last item.
C12_Witness ==
    /\ ret.op = "contains"
    /\ ~ret.val
    /\ Len(Last(holders).items.elems) = Last(holders).items.cap

\* C13 (independent traversals): every Iter has a cursor of its own that
\* started at the first stored value: what it has yielded is a prefix of the
\* stored slots and what it yields next is the slot after that prefix, whatever
\* the other Iter has done; two traversals that have ended have yielded the same
\* sequence; a step changes at most one Iter, a new Iter has yielded nothing,
\* and no step of an Iter changes the holders.
C13_IndependentTraversals ==
    /\ [](\A i \in DOMAIN iters : iters[i].live =>
            /\ IsPrefix(iters[i].yielded, SlotRefs(holders))
            /\ next(holders, iters[i]).item =
                   IF Len(iters[i].yielded) < Len(SlotRefs(holders))
                   THEN [tag |-> "Some",
                         ref |-> SlotRefs(holders)[Len(iters[i].yielded) + 1]]
                   ELSE None
            /\ \A j \in DOMAIN iters :
                  (iters[j].live /\ iters[i].nones > 0 /\ iters[j].nones > 0)
                      => iters[i].yielded = iters[j].yielded)
    /\ [][\A i \in DOMAIN iters :
            /\ (~iters[i].live /\ iters'[i].live) => iters'[i].yielded = <<>>
            /\ iters'[i] # iters[i] =>
                   /\ holders' = holders
                   /\ \A j \in DOMAIN iters \ {i} : iters'[j] = iters[j]]_vars

\* One traversal has ended after crossing into the second holder while the
\* other, started on the same store, is part of the way through.
C13_Witness ==
    \E i, j \in DOMAIN iters :
        /\ iters[i].live /\ iters[j].live
        /\ iters[i].nones > 0
        /\ Len(iters[i].yielded) > BEGIN_INTERNER_CAPACITY
        /\ Len(iters[j].yielded) > 0
        /\ Len(iters[j].yielded) < Len(iters[i].yielded)

\* C14 (handles never dangle): an Intern is dereferenced only while the
\* interner that issued it is alive, and the read gives the value it was
\* issued for.
C14_HandlesNeverDangle ==
    ret.op = "deref" => (holders # <<>> /\ ret.val = ret.arg)

\* C15 (duplicate intern is a no-op): a call of intern with a value that is
\* already stored leaves the holders as they were (their number, and the
\* buffer, capacity and contents of each) and returns the Intern of the slot
\* that holds the value; interning the value once more changes nothing either.
C15_DuplicateNoOp ==
    [][(ret'.op = "intern" /\ contains(holders, ret'.arg)) =>
           /\ holders' = holders
           /\ \E p \in Slots(holders) :
                 /\ SlotValue(holders, p) = ret'.arg
                 /\ ret'.val = transmute_held_item(ElemRef(holders[p[1]].items, p[2] - 1))
           /\ intern(holders', ret'.arg).holders = holders'
           /\ intern(holders', ret'.arg).result = ret'.val]_vars

\* The first value ever interned, which sits in the first slot of the first
\* holder, is interned again when the store has two holders.
C15_Witness ==
    /\ LastInternWasRepeat
    /\ ret.arg = inputs[1]
    /\ ret.val = transmute_held_item(ElemRef(holders[1].items, 0))
    /\ Len(holders) = 2

\* C16 (try_push): on every holder of the store and for every value, try_push
\* on a holder with fewer items than its capacity succeeds, puts the value in
\* the next slot, and keeps the earlier slots, the capacity and the buffer; on
\* a holder with as many items as its capacity it gives the value back and
\* leaves the holder as it was, and so does every further attempt.
C16_TryPush ==
    \A j \in 1..Len(holders) : \A v \in Value :
        LET holder == holders[j]
            n == Len(holder.items.elems)
            r == try_push(holder, v, FreshBuf(holders))
        IN  IF n < holder.items.cap
            THEN /\ r.ok
                 /\ Len(r.holder.items.elems) = n + 1
                 /\ r.holder.items.elems[n + 1] = v
                 /\ SubSeq(r.holder.items.elems, 1, n) = holder.items.elems
                 /\ r.holder.items.cap = holder.items.cap
                 /\ r.holder.items.ptr = holder.items.ptr
            ELSE /\ ~r.ok
                 /\ r.item = v
                 /\ r.holder = holder
                 /\ try_push(r.holder, r.item, FreshBuf(holders)) = r
                 /\ \A w \in Value : try_push(r.holder, w, FreshBuf(holders)).holder = holder

\* The first holder is full and the second has taken its second item.
C16_Witness ==
    /\ Len(holders) = 2
    /\ Len(holders[1].items.elems) = holders[1].items.cap
    /\ Len(holders[2].items.elems) = 2
    /\ ret.op = "intern"
    /\ ret.arg = Last(inputs)

\* C17 (traversal and insertion issue the same identities): every Intern an
\* Iter has yielded refers to a value that intern was given; it is equal to
\* every Intern that intern has returned for that value, the first one
\* included, and to the one a further intern of the value returns.
C17_SameIdentities ==
    \A i \in DOMAIN iters : \A k \in 1..Len(iters[i].yielded) :
        LET y == iters[i].yielded[k]
            v == deref(holders, y)
        IN  /\ v \in Range(inputs)
            /\ \E r \in handles : r.arg = v
            /\ \A r \in handles : r.arg = v => eq(y, r.h)
            /\ eq(y, intern(holders, v).result)

\* A traversal has yielded an Intern of the second holder, for a value that
\* was interned more than once.
C17_Witness ==
    \E i \in DOMAIN iters :
        /\ iters[i].live
        /\ Len(iters[i].yielded) > BEGIN_INTERNER_CAPACITY
        /\ as_ref(Last(iters[i].yielded)).ptr = holders[2].items.ptr
        /\ \E r \in handles : eq(r.h, Last(iters[i].yielded))

\* C18 (chunk-fill invariant): the store has at least one holder; no holder
\* has more items than its capacity; every holder but the last is full; every
\* holder but the first has an item, and the first one is empty only as long
\* as nothing has been interned.
C18_ChunkFill ==
    /\ Len(holders) >= 1
    /\ \A j \in 1..Len(holders) :
          /\ Len(holders[j].items.elems) >= 0
          /\ Len(holders[j].items.elems) <= holders[j].items.cap
          /\ j < Len(holders) => Len(holders[j].items.elems) = holders[j].items.cap
          /\ j > 1 => Len(holders[j].items.elems) >= 1
    /\ (Len(holders[1].items.elems) = 0) <=> (inputs = <<>>)

\* The fourth holder has just been added and holds one value; the three
\* holders before it are full.
C18_Witness ==
    /\ Len(holders) = 4
    /\ Len(holders[4].items.elems) = 1
    /\ Len(holders[3].items.elems) = holders[3].items.cap
    /\ ret.op = "intern"
    /\ ret.arg = Last(inputs)

\* C19 (equality and ordering agree): two Interns issued by the interner are
\* equal (the same address) exactly when Ord's cmp of them is Equal and when
\* PartialOrd's partial_cmp of them is Some(Equal).
C19_EqOrdAgree ==
    \A r1, r2 \in handles :
        /\ eq(r1.h, r2.h) <=> (cmp(holders, r1.h, r2.h) = "Equal")
        /\ eq(r1.h, r2.h) <=>
               (partial_cmp(holders, r1.h, r2.h) = [tag |-> "Some", ord |-> "Equal"])

\* A value is interned again and its Intern is held together with the Intern
\* of a smaller value that lives in the other holder.
C19_Witness ==
    /\ LastInternWasRepeat
    /\ \E r1, r2 \in handles :
          /\ eq(ret.val, r1.h)
          /\ as_ref(r1.h).ptr # as_ref(r2.h).ptr
          /\ cmp(holders, r1.h, r2.h) = "Greater"
          /\ ~eq(r1.h, r2.h)

\* C20 (placement of a new value): after an intern of a value that was not
\* stored, the value is the last item of the last holder, the Intern returned
\* is the address of that slot, and this is so both when the last holder had
\* room (no holder is added) and when it was full (one holder is added, and
\* the value is its only item).
C20_Placement ==
    [][(ret'.op = "intern" /\ ~contains(holders, ret'.arg)) =>
           LET items == Last(holders').items
           IN  /\ Len(items.elems) >= 1
               /\ Last(items.elems) = ret'.arg
               /\ ret'.val = transmute_held_item(ElemRef(items, Len(items.elems) - 1))
               /\ deref(holders', ret'.val) = ret'.arg
               /\ IF Len(Last(holders).items.elems) < Last(holders).items.cap
                  THEN /\ Len(holders') = Len(holders)
                       /\ Len(items.elems) = Len(Last(holders).items.elems) + 1
                  ELSE /\ Len(holders') = Len(holders) + 1
                       /\ Len(items.elems) = 1]_vars

\* A new value has gone into the first slot of a fifth holder, and intern has
\* returned the address of that slot.
C20_Witness ==
    /\ Len(holders) = 5
    /\ ret.op = "intern"
    /\ ret.arg = Last(inputs)
    /\ ret.val = transmute_held_item(ElemRef(holders[5].items, 0))

====
